---- MODULE Spec2Model ----
(***************************************************************************)
(* A model of src/src/data_generator.py: the synthetic e-commerce data     *)
(* generator (generate_users, generate_events with simulate_user_session   *)
(* and the session_id noise passes, generate_orders, main).                *)
(*                                                                         *)
(* Units.  Probabilities and np.random.random() draws are basis points     *)
(* (1/10000), datetimes are seconds since START_DATE, money is cents.      *)
(*                                                                         *)
(* Randomness.  Every np.random draw is an existentially chosen input of   *)
(* the action that makes it; an action is given the sample space (a record *)
(* of small sets) its draws range over.  uuid.uuid4() does not read the    *)
(* np.random stream seeded by RANDOM_SEED: it reads the operating system's *)
(* entropy.  An identifier is stored as the ordinal of the uuid4() call    *)
(* that made it (two identifiers of one run are equal iff they come from   *)
(* the same call), and UuidString gives the string that call returns for a *)
(* given state of the entropy pool.                                        *)
(***************************************************************************)
EXTENDS Integers, Sequences, FiniteSets, TLC

VARIABLES
    pc,          \* position of main(): which step runs next
    uuid_calls,  \* number of uuid.uuid4() calls made so far
    users_df,    \* the users table (a sequence of rows ordered by user_id)
    user_idx,    \* generate_events: index of the user whose sessions are generated
    n_sessions,  \* generate_events: n_sessions of the current user
    session_num, \* generate_events: sessions of the current user already simulated
    frame,       \* the running (or last returned) simulate_user_session call
    all_events,  \* generate_events: the list all_events
    events_df,   \* the events DataFrame (generate_events, then main)
    purchase_idx,\* generate_orders: purchase events already turned into orders
    orders,      \* generate_orders: the list orders, then orders_df
    orders_columns, \* the columns of the DataFrame generate_orders returned
    orders_raw   \* load_to_db: the rows of the table orders_raw

vars == <<pc, uuid_calls, users_df, user_idx, n_sessions, session_num,
          frame, all_events, events_df, purchase_idx, orders, orders_columns,
          orders_raw>>

----------------------------------------------------------------------------
(* Configuration (data_generator.py lines 24-79)                           *)

\* Scaled-down population and event target (120_000 and 950_000 in the source).
N_USERS == 2
N_EVENTS_TARGET == 6
\* Cap on the sessions simulated per user (Poisson + 1, Poisson + 5 in the source).
MaxSessions == 2

N_PRODUCTS == 2000
MIN_PRICE == 999
MAX_PRICE == 99999
DATE_RANGE_DAYS == 730
SecondsPerDay == 86400
END_DATE == DATE_RANGE_DAYS * SecondsPerDay

SOURCE_PROB_PAID == 3500
BOT_USER_PCT == 200
DISCOUNT_PROB == 4000
PAYMENT_FAIL_PROB == 800

FUNNEL_PROBS ==
    [visit |-> 10000, product_view |-> 7500, add_to_cart |-> 4000,
     checkout |-> 3000, purchase |-> 9200]

PRODUCT_CATEGORIES == <<"electronics", "fashion", "home", "beauty", "sports">>

\* Python's None / a NaN cell: 0 in an integer column, "None" in a string column.
NoneId == 0
NoneStr == "None"

AB_TEST_ID == "checkout_layout_test_1"

Min(a, b) == IF a <= b THEN a ELSE b
Max(a, b) == IF a >= b THEN a ELSE b

----------------------------------------------------------------------------
(* Pure helpers                                                            *)

\* get_product_category with a period of 4: the last category is never used.
get_product_category_Period4(product_id) ==
    IF product_id = NoneId THEN NoneStr
    ELSE PRODUCT_CATEGORIES[((product_id - 1) % (Len(PRODUCT_CATEGORIES) - 1)) + 1]

\* lines 82-92
get_product_category(product_id) ==
    IF product_id = NoneId THEN NoneStr
    ELSE PRODUCT_CATEGORIES[((product_id - 1) % Len(PRODUCT_CATEGORIES)) + 1]

\* The string the n-th uuid.uuid4() call of a process returns when the operating
\* system's entropy pool is in state `entropy` at its start.
UuidString(entropy, n) == IF n = NoneId THEN NoneId ELSE entropy + n

\* round(n / d) to the nearest integer, ties to even (Python 3 / numpy rounding).
RoundDiv(n, d) ==
    LET q == n \div d
        rem == n % d
    IN  IF 2 * rem < d THEN q
        ELSE IF 2 * rem > d THEN q + 1
        ELSE IF q % 2 = 0 THEN q ELSE q + 1

Clip(x, lo, hi) == IF x < lo THEN lo ELSE IF x > hi THEN hi ELSE x

CountType(evs, t) == Cardinality({i \in DOMAIN evs : evs[i].event_type = t})

HasType(evs, t) == \E i \in DOMAIN evs : evs[i].event_type = t

----------------------------------------------------------------------------
(* simulate_user_session (lines 171-320), one operator per stage.  A frame *)
(* holds the call's arguments and locals.  session_id is the first uuid4() *)
(* call of the session and every event makes one more, in emission order.  *)

\* EnterSession with the is_bot flag ignored: every session walks the funnel.
EnterSession_IgnoreBot(user_id, user_info, start_time, funnel_probs, calls) ==
    [user_id |-> user_id, user_info |-> user_info, start_time |-> start_time,
     funnel_probs |-> funnel_probs, session_id |-> calls + 1,
     events |-> <<>>, current_time |-> start_time, pc |-> "visit"]

EnterSession(user_id, user_info, start_time, funnel_probs, calls) ==
    [user_id |-> user_id, user_info |-> user_info, start_time |-> start_time,
     funnel_probs |-> funnel_probs, session_id |-> calls + 1,
     events |-> <<>>, current_time |-> start_time,
     pc |-> IF user_info.is_bot THEN "bot" ELSE "visit"]

NextEventId(f, i) == f.session_id + Len(f.events) + i

Event(f, eid, type, page, pid, cat, ts, abid, var) ==
    [event_id |-> eid, user_id |-> f.user_id, session_id |-> f.session_id,
     event_type |-> type, page |-> page, product_id |-> pid,
     product_category |-> cat, ts |-> ts, source |-> f.user_info.source,
     device |-> f.user_info.device, ab_test_id |-> abid, variant |-> var]

\* lines 196-212: n_events events, each visit or product_view, 5 s apart.
BotSession(f, n_events, types, products) ==
    [f EXCEPT
       !.events = [i \in 1..n_events |->
           Event(f, NextEventId(f, i), types[i],
                 IF types[i] = "product_view" THEN "product" ELSE "home",
                 products[i], NoneStr, f.current_time + (i - 1) * 5,
                 NoneStr, NoneStr)],
       !.pc = "return"]

\* lines 216-228
StageVisit(f, r, d) ==
    IF r < f.funnel_probs.visit
    THEN [f EXCEPT
            !.events = Append(@, Event(f, NextEventId(f, 1), "visit", "home",
                                       NoneId, NoneStr, f.current_time,
                                       NoneStr, NoneStr)),
            !.current_time = @ + d,
            !.pc = "product_view"]
    ELSE [f EXCEPT !.pc = "product_view"]

\* lines 231-247: poisson + 1 views, 10 s apart, then current_time advances by d.
StageProductView(f, r, poisson, products, d) ==
    IF f.events # <<>> /\ r < f.funnel_probs.product_view
    THEN LET n_views == poisson + 1
         IN  [f EXCEPT
                !.events = @ \o [i \in 1..n_views |->
                    Event(f, NextEventId(f, i), "product_view", "product",
                          products[i], get_product_category(products[i]),
                          f.current_time + (i - 1) * 10, NoneStr, NoneStr)],
                !.current_time = @ + d,
                !.pc = "add_to_cart"]
    ELSE [f EXCEPT !.pc = "add_to_cart"]

ViewedProducts(evs) ==
    LET views == SelectSeq(evs, LAMBDA e : e.event_type = "product_view")
    IN  [i \in DOMAIN views |-> views[i].product_id]

\* StageAddToCart taking every product_id from the fallback draw.
StageAddToCart_Fallback(f, r, poisson, picks, fallback, d) ==
    IF Len(f.events) > 1 /\ r < f.funnel_probs.add_to_cart
    THEN LET n_cart_items == poisson + 1
             viewed_products == ViewedProducts(f.events)
             n == Min(n_cart_items, Len(viewed_products))
         IN  [f EXCEPT
                !.events = @ \o [i \in 1..n |->
                    Event(f, NextEventId(f, i), "add_to_cart", "product",
                          fallback[i], get_product_category(fallback[i]),
                          f.current_time + (i - 1) * 5, NoneStr, NoneStr)],
                !.current_time = @ + d,
                !.pc = "checkout"]
    ELSE [f EXCEPT !.pc = "checkout"]

\* lines 250-272: min(poisson + 1, viewed) cart events, 5 s apart; picks[i] is
\* the position np.random.choice takes in viewed_products, fallback[i] the
\* np.random.randint value used when viewed_products is empty.
StageAddToCart(f, r, poisson, picks, fallback, d) ==
    IF Len(f.events) > 1 /\ r < f.funnel_probs.add_to_cart
    THEN LET n_cart_items == poisson + 1
             viewed_products == ViewedProducts(f.events)
             n == Min(n_cart_items, Len(viewed_products))
             product_id(i) == IF viewed_products # <<>>
                              THEN viewed_products[picks[i]]
                              ELSE fallback[i]
         IN  [f EXCEPT
                !.events = @ \o [i \in 1..n |->
                    Event(f, NextEventId(f, i), "add_to_cart", "product",
                          product_id(i), get_product_category(product_id(i)),
                          f.current_time + (i - 1) * 5, NoneStr, NoneStr)],
                !.current_time = @ + d,
                !.pc = "checkout"]
    ELSE [f EXCEPT !.pc = "checkout"]

\* lines 289-292 and 314-317: the A/B columns of a checkout or purchase event.
\* AbTestId that leaves the test id out of the event.
AbTestId_Never(f) == NoneStr

AbTestId(f) == IF f.user_info.ab_variant # NoneStr THEN AB_TEST_ID ELSE NoneStr

\* AbVariant assigned per session, not per user.
AbVariant_BySession(f) == IF f.session_id % 2 = 0 THEN "variant" ELSE "control"

AbVariant(f) == f.user_info.ab_variant

\* StageCheckout without the any(add_to_cart) gate.
StageCheckout_NoCartGate(f, r, d) ==
    IF r < f.funnel_probs.checkout
    THEN [f EXCEPT
            !.events = Append(@, Event(f, NextEventId(f, 1), "checkout", "checkout",
                                       NoneId, NoneStr, f.current_time,
                                       AbTestId(f), AbVariant(f))),
            !.current_time = @ + d,
            !.pc = "purchase"]
    ELSE [f EXCEPT !.pc = "purchase"]

\* lines 275-294
StageCheckout(f, r, d) ==
    IF HasType(f.events, "add_to_cart") /\ r < f.funnel_probs.checkout
    THEN [f EXCEPT
            !.events = Append(@, Event(f, NextEventId(f, 1), "checkout", "checkout",
                                       NoneId, NoneStr, f.current_time,
                                       AbTestId(f), AbVariant(f))),
            !.current_time = @ + d,
            !.pc = "purchase"]
    ELSE [f EXCEPT !.pc = "purchase"]

CartProducts(evs) ==
    LET carts == SelectSeq(evs, LAMBDA e : e.event_type = "add_to_cart")
    IN  [i \in DOMAIN carts |-> carts[i].product_id]

\* StagePurchase referencing the last product added to the cart.
StagePurchase_LastCart(f, r) ==
    IF HasType(f.events, "checkout") /\ r < f.funnel_probs.purchase
       /\ CartProducts(f.events) # <<>>
    THEN LET product_id == CartProducts(f.events)[Len(CartProducts(f.events))]
         IN  [f EXCEPT
                !.events = Append(@, Event(f, NextEventId(f, 1), "purchase", "checkout",
                                           product_id, get_product_category(product_id),
                                           f.current_time, AbTestId(f), AbVariant(f))),
                !.pc = "return"]
    ELSE [f EXCEPT !.pc = "return"]

\* lines 297-320
StagePurchase(f, r) ==
    IF HasType(f.events, "checkout") /\ r < f.funnel_probs.purchase
       /\ CartProducts(f.events) # <<>>
    THEN LET product_id == CartProducts(f.events)[1]
         IN  [f EXCEPT
                !.events = Append(@, Event(f, NextEventId(f, 1), "purchase", "checkout",
                                           product_id, get_product_category(product_id),
                                           f.current_time, AbTestId(f), AbVariant(f))),
                !.pc = "return"]
    ELSE [f EXCEPT !.pc = "return"]

----------------------------------------------------------------------------
(* Sample spaces.  A sample space S is a record of the finite sets the     *)
(* np.random draws of a run range over:                                     *)
(*   unit          values of np.random.random() in the funnel stages, in    *)
(*                 basis points; bot_unit, source_unit, order_unit: its     *)
(*                 values for is_bot, for the paid source and in orders     *)
(*   exp           values of np.random.exponential(..), in seconds          *)
(*   views, carts  values of np.random.poisson(..) in the view / cart stage *)
(*   products      values of np.random.randint(1, N_PRODUCTS + 1)           *)
(*   bot_events    values of np.random.poisson(50)                          *)
(*   signup_days   values of int(beta * DATE_RANGE_DAYS)                    *)
(*   devices, countries, sources   values of np.random.choice               *)
(*   sessions      values of the Poisson draw behind n_sessions             *)
(*   session_days  values of int(np.random.exponential(30))                 *)
(*   prices        values of exp(normal), in tenths of a cent               *)
(*   quantities, discount_pcts (basis points)                               *)
(*   noisy         whether a noise pass can draw a row under its threshold  *)

BotEventTypes == {"visit", "product_view"}

\* Outcomes of each stage of simulate_user_session over the draws of S.
BotOutcomes(f, S) ==
    UNION {{BotSession(f, n, types, products) :
                types \in [1..n -> BotEventTypes], products \in [1..n -> S.products]} :
           n \in S.bot_events}

VisitOutcomes(f, S) == {StageVisit(f, r, d) : r \in S.unit, d \in S.exp}

ViewOutcomes(f, S) ==
    UNION {{StageProductView(f, r, n, products, d) :
                r \in S.unit, products \in [1..(n + 1) -> S.products], d \in S.exp} :
           n \in S.views}

\* (np.random.randint is drawn only for an empty viewed_products.)
CartOutcomes(f, S) ==
    LET viewed == Len(ViewedProducts(f.events))
        drawn == IF viewed = 0 THEN S.products ELSE {NoneId}
    IN  UNION {{StageAddToCart(f, r, n, picks, fallback, d) :
                    r \in S.unit,
                    picks \in [1..Min(n + 1, viewed) -> 1..viewed],
                    fallback \in [1..Min(n + 1, viewed) -> drawn],
                    d \in S.exp} :
               n \in S.carts}

CheckoutOutcomes(f, S) == {StageCheckout(f, r, d) : r \in S.unit, d \in S.exp}

PurchaseOutcomes(f, S) == {StagePurchase(f, r) : r \in S.unit}

\* The frames a whole call of simulate_user_session can return from entry frame f.
SimulateUserSession(f, S) ==
    IF f.pc = "bot" THEN BotOutcomes(f, S)
    ELSE LET visited == VisitOutcomes(f, S)
             viewed == UNION {ViewOutcomes(g, S) : g \in visited}
             carted == UNION {CartOutcomes(g, S) : g \in viewed}
             checked == UNION {CheckoutOutcomes(g, S) : g \in carted}
         IN  UNION {PurchaseOutcomes(g, S) : g \in checked}

\* uuid4() calls made once frame f holds its events: session_id plus one per event.
CallsAfter(f) == f.session_id + Len(f.events)

----------------------------------------------------------------------------
(* generate_users (lines 95-163)                                           *)

\* line 135, users_df.sort_values("signup_date"): position (from 0) of user u
\* in the sorted frame.  The default sort is not stable: rows of equal
\* signup_date come out in user_id order or in the reverse order.
SignupRank(days, u, stable) ==
    Cardinality({v \in DOMAIN days :
                    \/ days[v] < days[u]
                    \/ days[v] = days[u] /\ (IF stable THEN v < u ELSE v > u)})

\* LoyaltyTierAt with the gold and silver slices starting at index 0.
LoyaltyTierAt_NoOffset(n, k) ==
    LET n_platinum == (3 * n) \div 100
        n_gold == (12 * n) \div 100
        n_silver == (25 * n) \div 100
    IN  IF k < n_platinum THEN "platinum"
        ELSE IF k < n_gold THEN "gold"
        ELSE IF k < n_silver THEN "silver"
        ELSE "bronze"

\* lines 136-147: the tier written at index k (from 0) of the sorted frame of
\* n rows.
LoyaltyTierAt(n, k) ==
    LET n_platinum == (3 * n) \div 100
        n_gold == (12 * n) \div 100
        n_silver == (25 * n) \div 100
    IN  IF k < n_platinum THEN "platinum"
        ELSE IF k < n_platinum + n_gold THEN "gold"
        ELSE IF k < n_platinum + n_gold + n_silver THEN "silver"
        ELSE "bronze"

\* lines 135-148: users_sorted, the user_ids in signup order with their tiers.
\* (Both sequences are concatenated with <<>> so that TLC computes them once.)
UsersSorted(days, stable) ==
    LET n == Len(days)
        rank == [u \in 1..n |-> SignupRank(days, u, stable)] \o <<>>
    IN  [p \in 1..n |->
            [user_id |-> CHOOSE u \in 1..n : rank[u] = p - 1,
             loyalty_tier |-> LoyaltyTierAt(n, p - 1)]] \o <<>>

\* lines 151-155: the tier of user u after sort_values("user_id").
LoyaltyTier(users_sorted, u) ==
    LET p == CHOOSE q \in DOMAIN users_sorted : users_sorted[q].user_id = u
    IN  users_sorted[p].loyalty_tier

MakeUsers(days, devices, countries, bot_draws, stable) ==
    LET users_sorted == UsersSorted(days, stable)
    IN  [u \in DOMAIN days |->
            [user_id |-> u,
             signup_date |-> days[u] * SecondsPerDay,
             device |-> devices[u],
             country |-> countries[u],
             is_bot |-> bot_draws[u] < BOT_USER_PCT,
             loyalty_tier |-> LoyaltyTier(users_sorted, u)]]

\* The users tables generate_users can return for n users over the draws of S.
UserTables(n, S) ==
    {MakeUsers(days, devices, countries, bot_draws, stable) :
        days \in [1..n -> S.signup_days], devices \in [1..n -> S.devices],
        countries \in [1..n -> S.countries], bot_draws \in [1..n -> S.bot_unit],
        stable \in BOOLEAN}

----------------------------------------------------------------------------
(* generate_events: session scheduling (lines 352-413)                     *)

\* line 357
AbVariantOf(user_id) == IF user_id % 2 = 0 THEN "variant" ELSE "control"

\* lines 361-374, capped at MaxSessions
SessionCount(user, poisson) ==
    Min(IF user.is_bot THEN poisson + 5 ELSE poisson + 1, MaxSessions)

\* SessionStart without the clamp to END_DATE.
SessionStart_NoClamp(user, days) == user.signup_date + days * SecondsPerDay

\* lines 380-382
SessionStart(user, days) == Min(user.signup_date + days * SecondsPerDay, END_DATE)

\* lines 385-401: paid sessions scale every funnel probability by 0.85, and
\* sessions of non-bot "variant" users raise the purchase probability by 5%.
ScaledFunnelProbs(funnel_probs, user, paid) ==
    LET base == IF paid
                THEN [k \in DOMAIN funnel_probs |-> (funnel_probs[k] * 85) \div 100]
                ELSE funnel_probs
    IN  IF ~user.is_bot /\ AbVariantOf(user.user_id) = "variant"
        THEN [base EXCEPT !.purchase = Min(10000, (@ * 105) \div 100)]
        ELSE base

\* funnel_probs_session under the module's FUNNEL_PROBS
SessionFunnelProbs(user, paid) == ScaledFunnelProbs(FUNNEL_PROBS, user, paid)

\* lines 403-407
UserInfoWithSource(user, source) ==
    [signup_date |-> user.signup_date, device |-> user.device,
     country |-> user.country, is_bot |-> user.is_bot,
     loyalty_tier |-> user.loyalty_tier, source |-> source,
     ab_variant |-> AbVariantOf(user.user_id)]

\* The entry frames of the simulate_user_session calls generate_events can make
\* for one row of the users table, when `calls` uuid4() calls were made before.
SessionCalls(user, calls, S) ==
    {EnterSession(user.user_id,
                  UserInfoWithSource(user, IF r < SOURCE_PROB_PAID THEN "paid" ELSE src),
                  SessionStart(user, days),
                  SessionFunnelProbs(user, r < SOURCE_PROB_PAID),
                  calls) :
        r \in S.source_unit, src \in S.sources, days \in S.session_days}

----------------------------------------------------------------------------
(* generate_events: noise passes and trimming (lines 415-436)              *)

\* Bound of the noise sample space: a pass draws at most one row under its
\* threshold, among the first NoiseRows rows.
NoiseRows == 2

\* The boolean masks a noise pass can draw over n rows; with `noisy` false no
\* draw falls under the threshold.
Masks(n, noisy) ==
    {{}} \cup (IF noisy THEN {{i} : i \in 1..Min(n, NoiseRows)} ELSE {})

\* ApplyMissing assigning None to the selected rows, not to their session_id only.
ApplyMissing_WholeRow(df, missing_mask) ==
    [i \in DOMAIN df |->
        IF i \in missing_mask
        THEN [df[i] EXCEPT !.session_id = NoneId, !.user_id = NoneId,
                           !.product_id = NoneId]
        ELSE df[i]]

\* lines 419-420
ApplyMissing(df, missing_mask) ==
    [i \in DOMAIN df |->
        IF i \in missing_mask THEN [df[i] EXCEPT !.session_id = NoneId] ELSE df[i]]

\* The rows np.random.choice can draw from events_df[~duplicate_mask].index
\* (line 427); the model draws among the first NoiseRows + 1 rows.
SourcePool(n, duplicate_mask) == (1..Min(n, NoiseRows + 1)) \ duplicate_mask

\* line 428
ApplyDuplicate(df, duplicate_mask, source_indices) ==
    [i \in DOMAIN df |->
        IF i \in duplicate_mask
        THEN [df[i] EXCEPT !.session_id = df[source_indices[i]].session_id]
        ELSE df[i]]

\* line 431: len(events_df) > N_EVENTS_TARGET * 1.1
OverTarget(n) == 10 * n > 11 * N_EVENTS_TARGET

\* TrimSize with a wrong factor.
TrimSize_Half == N_EVENTS_TARGET \div 2

\* line 432: int(N_EVENTS_TARGET * 1.05)
TrimSize == (105 * N_EVENTS_TARGET) \div 100

\* The row sets DataFrame.sample(n = k) can keep out of n rows; the model
\* draws among the first k rows and the last k rows.
Samples(n, k) == {1..k, (n - k + 1)..n}

\* The rows of df at the positions `keep`, in their order in df.
Rows(df, keep) ==
    [p \in 1..Cardinality(keep) |->
        df[CHOOSE i \in keep : Cardinality({j \in keep : j < i}) = p - 1]]

\* sort_values("ts"); rows of equal ts keep their order.
SortByTs(df) ==
    LET rank(i) == Cardinality({j \in DOMAIN df :
                        df[j].ts < df[i].ts \/ (df[j].ts = df[i].ts /\ j < i)}) + 1
    IN  [p \in DOMAIN df |-> df[CHOOSE i \in DOMAIN df : rank(i) = p]]

\* lines 431-432
TrimEvents(df, keep) ==
    IF OverTarget(Len(df)) THEN SortByTs(Rows(df, keep)) ELSE df

----------------------------------------------------------------------------
(* generate_orders (lines 439-519)                                         *)

ORDER_COLUMNS ==
    <<"order_id", "user_id", "product_id", "price", "quantity",
      "discount_amount", "ts", "payment_status">>

\* line 457: the columns of the frame returned when there is no purchase event
EMPTY_ORDER_COLUMNS ==
    <<"order_id", "user_id", "product_id", "price", "ts", "payment_status">>

\* PurchaseEvents with a filter that also lets checkout events through.
PurchaseEvents_WithCheckouts(df) ==
    SelectSeq(df, LAMBDA e : e.event_type \in {"purchase", "checkout"})

\* line 453
PurchaseEvents(df) == SelectSeq(df, LAMBDA e : e.event_type = "purchase")

\* UnitPrice without np.clip.
UnitPrice_NoClip(raw) == RoundDiv(raw, 10)

\* lines 468-471: raw is exp(normal) in tenths of a cent; the result is cents.
UnitPrice(raw) == RoundDiv(Clip(raw, MIN_PRICE * 10, MAX_PRICE * 10), 10)

\* DiscountAmount without the re-clamp of lines 492-493.
DiscountAmount_NoReclamp(base_total, eligible, r, discount_pct) ==
    IF eligible /\ r < DISCOUNT_PROB
    THEN RoundDiv(base_total * discount_pct, 10000)
    ELSE 0

\* lines 482-493
DiscountAmount(base_total, eligible, r, discount_pct) ==
    IF eligible /\ r < DISCOUNT_PROB
    THEN LET discount_amount == RoundDiv(base_total * discount_pct, 10000)
         IN  IF base_total - discount_amount < MIN_PRICE
             THEN Max(0, base_total - MIN_PRICE)
             ELSE discount_amount
    ELSE 0

\* lines 463-511: the order made from one purchase event.
MakeOrder(event, order_id, raw, quantity, r_discount, discount_pct, r_payment) ==
    LET unit_price == UnitPrice(raw)
        base_total == unit_price * quantity
        eligible == event.source = "paid" \/ event.variant = "variant"
        discount_amount == DiscountAmount(base_total, eligible, r_discount, discount_pct)
        final_price == base_total - discount_amount
    IN  [order_id |-> order_id,
         user_id |-> event.user_id,
         product_id |-> event.product_id,
         price |-> final_price,
         quantity |-> quantity,
         discount_amount |-> discount_amount,
         ts |-> event.ts,
         payment_status |-> IF r_payment < PAYMENT_FAIL_PROB THEN "failed" ELSE "success"]

----------------------------------------------------------------------------
(* load_to_db.py: load_events_table and load_orders_table.  A table is the *)
(* set of its rows (SQL gives them no order); orders_raw can hold no two   *)
(* equal rows, because the joined pairs are DISTINCT.                      *)

\* load_events_table, lines 82-109: events.csv read back and cast.  An empty
\* cell is NaN in the frame and NULL in the table; product_id, a float column
\* in the file, is cast to INTEGER.
EventsRaw(df) ==
    {[event_id |-> df[i].event_id, user_id |-> df[i].user_id,
      session_id |-> df[i].session_id, event_type |-> df[i].event_type,
      page |-> df[i].page, product_id |-> df[i].product_id,
      product_category |-> df[i].product_category, ts |-> df[i].ts,
      source |-> df[i].source, device |-> df[i].device,
      ab_test_id |-> df[i].ab_test_id, variant |-> df[i].variant] :
        i \in DOMAIN df}

\* load_orders_table, lines 132-144: orders.csv read back and cast.
OrdersTemp(df) ==
    {[order_id |-> df[k].order_id, user_id |-> df[k].user_id,
      product_id |-> df[k].product_id, price |-> df[k].price,
      quantity |-> df[k].quantity, discount_amount |-> df[k].discount_amount,
      ts |-> df[k].ts, payment_status |-> df[k].payment_status] :
        k \in DOMAIN df}

\* CategoryPairs without the filter on product_category.
CategoryPairs_WithNulls(events_raw) ==
    {[product_id |-> e.product_id, product_category |-> e.product_category] :
        e \in {x \in events_raw : x.product_id # NoneId}}

\* lines 159-164: SELECT DISTINCT product_id, product_category FROM events_raw
\* WHERE product_id IS NOT NULL AND product_category IS NOT NULL
CategoryPairs(events_raw) ==
    {[product_id |-> e.product_id, product_category |-> e.product_category] :
        e \in {x \in events_raw :
                  x.product_id # NoneId /\ x.product_category # NoneStr}}

\* lines 147-165: orders_temp LEFT JOIN the pairs ON product_id, with
\* COALESCE(e.product_category, 'unknown').
LoadOrdersTable(orders_temp, events_raw) ==
    LET e == CategoryPairs(events_raw)
        matches(o) == {p \in e : o.product_id # NoneId /\ p.product_id = o.product_id}
        row(o, category) ==
            [order_id |-> o.order_id, user_id |-> o.user_id,
             product_id |-> o.product_id,
             product_category |-> IF category = NoneStr THEN "unknown" ELSE category,
             price |-> o.price, quantity |-> o.quantity,
             discount_amount |-> o.discount_amount, ts |-> o.ts,
             payment_status |-> o.payment_status]
    IN  UNION {IF matches(o) = {}
               THEN {row(o, NoneStr)}
               ELSE {row(o, p.product_category) : p \in matches(o)} :
               o \in orders_temp}

----------------------------------------------------------------------------
(* The sample spaces the specifications below run over                     *)

\* np.random.random() values on both sides of every threshold of the program.
UnitDraws == {50, 2800, 3700, 7000, 8000, 9000, 9400, 9900}

\* The whole pipeline, with few outcomes per draw (every session is paid).
Narrow ==
    [unit |-> UnitDraws, bot_unit |-> UnitDraws, source_unit |-> {2800},
     order_unit |-> UnitDraws, exp |-> {30}, views |-> {0}, carts |-> {0},
     products |-> {7}, bot_events |-> {1},
     signup_days |-> {700}, devices |-> {"mobile"}, countries |-> {"US"},
     sources |-> {"organic"}, sessions |-> {0}, session_days |-> {40},
     prices |-> {12345}, quantities |-> {1}, discount_pcts |-> {2000},
     noisy |-> TRUE]

\* One call of simulate_user_session, with many outcomes per stage.
SessionRich ==
    [Narrow EXCEPT !.source_unit = UnitDraws,
                   !.exp = {3, 30}, !.views = {0, 1}, !.carts = {0, 1},
                   !.products = {2, 7}, !.bot_events = {0, 1, 3},
                   !.sources = {"organic", "email"}, !.session_days = {0, 40},
                   !.signup_days = {0, 700}]

\* The pipeline with sessions that all reach a purchase and many order draws.
OrderRich ==
    [Narrow EXCEPT !.unit = {50}, !.bot_unit = {7000},
                   !.source_unit = {2800, 7000},
                   !.order_unit = {50, 2800, 9900},
                   !.prices = {500, 10000, 12345, 13325, 2000000},
                   !.quantities = {1, 4},
                   !.discount_pcts = {500, 2499},
                   !.noisy = FALSE]

\* The pipeline with users of one or two sessions, each session a whole funnel.
EventRich ==
    [Narrow EXCEPT !.unit = {50}, !.bot_unit = {7000},
                   !.source_unit = {2800, 7000},
                   !.order_unit = {9900},
                   !.sessions = {0, 1}]

\* Whole-funnel and bot sessions over the whole range of product ids.
ProductRich ==
    [Narrow EXCEPT !.unit = {50}, !.bot_unit = {50, 7000},
                   !.source_unit = {2800, 7000},
                   !.products = 1..N_PRODUCTS]

\* One call of simulate_user_session with few and with many product views and
\* cart items.
ViewRich ==
    [SessionRich EXCEPT !.views = {0, 3, 4}, !.carts = {0, 3}, !.products = {7},
                        !.bot_events = {1}]

----------------------------------------------------------------------------
(* State                                                                   *)

\* States of the operating system's entropy pool at the start of a run.  Runs
\* started with the same RANDOM_SEED share every np.random draw, that is the
\* whole state below; they need not share the state of the entropy pool.
Entropy == {0, 1000}

NoUserInfo ==
    [signup_date |-> 0, device |-> NoneStr, country |-> NoneStr, is_bot |-> FALSE,
     loyalty_tier |-> NoneStr, source |-> NoneStr, ab_variant |-> NoneStr]

\* No call of simulate_user_session has been made yet.
NoFrame ==
    [EnterSession(NoneId, NoUserInfo, 0, FUNNEL_PROBS, 0) EXCEPT
        !.session_id = NoneId, !.pc = "none"]

Init ==
    /\ pc = "generate_users"
    /\ uuid_calls = 0
    /\ users_df = <<>>
    /\ user_idx = 0
    /\ n_sessions = 0
    /\ session_num = 0
    /\ frame = NoFrame
    /\ all_events = <<>>
    /\ events_df = <<>>
    /\ purchase_idx = 0
    /\ orders = <<>>
    /\ orders_columns = <<>>
    /\ orders_raw = {}

----------------------------------------------------------------------------
(* main (lines 624-655): generate_users, generate_events, generate_orders  *)

\* lines 95-163 and 632: generate_users returns one of `tables` to main.
GenerateUsersOf(tables) ==
    /\ pc = "generate_users"
    /\ users_df' \in tables
    /\ pc' = "generate_events"
    /\ UNCHANGED <<uuid_calls, user_idx, n_sessions, session_num, frame,
                   all_events, events_df, purchase_idx, orders, orders_columns, orders_raw>>

GenerateUsers(S) == GenerateUsersOf(UserTables(N_USERS, S))

RegularUsers(df) == {u \in DOMAIN df : ~df[u].is_bot}

\* lines 335-349: regular_events_per_user divides by n_regular_users, and the
\* int() of the quotient raises when no user is a regular user.
EventsBegin ==
    /\ pc = "generate_events"
    /\ IF RegularUsers(users_df) = {}
       THEN pc' = "error" /\ UNCHANGED user_idx
       ELSE pc' = "user" /\ user_idx' = 1
    /\ UNCHANGED <<uuid_calls, users_df, n_sessions, session_num, frame,
                   all_events, events_df, purchase_idx, orders, orders_columns, orders_raw>>

\* UserBegin with user_info a view of the users table: the ab_variant written
\* to it lands in the table.
UserBegin_WritesBack(S) ==
    /\ pc = "user"
    /\ \E poisson \in S.sessions :
          n_sessions' = SessionCount(users_df[user_idx], poisson)
    /\ session_num' = 0
    /\ pc' = "session"
    /\ users_df' = [users_df EXCEPT ![user_idx] =
                       [user_id |-> @.user_id, signup_date |-> @.signup_date,
                        device |-> @.device, country |-> @.country,
                        is_bot |-> @.is_bot, loyalty_tier |-> @.loyalty_tier,
                        ab_variant |-> AbVariantOf(@.user_id)]]
    /\ UNCHANGED <<uuid_calls, user_idx, frame,
                   all_events, events_df, purchase_idx, orders, orders_columns, orders_raw>>

\* lines 352-374
UserBegin(S) ==
    /\ pc = "user"
    /\ \E poisson \in S.sessions :
          n_sessions' = SessionCount(users_df[user_idx], poisson)
    /\ session_num' = 0
    /\ pc' = "session"
    /\ UNCHANGED <<uuid_calls, users_df, user_idx, frame,
                   all_events, events_df, purchase_idx, orders, orders_columns, orders_raw>>

\* lines 378-413: one iteration of the session loop, the whole call of
\* simulate_user_session included; then the loops advance.
SessionRun(S) ==
    /\ pc = "session"
    /\ \E f0 \in SessionCalls(users_df[user_idx], uuid_calls, S) :
          \E f \in SimulateUserSession(f0, S) :
             /\ frame' = f
             /\ uuid_calls' = CallsAfter(f)
             /\ all_events' = all_events \o f.events
    /\ session_num' = session_num + 1
    /\ IF session_num + 1 < n_sessions
       THEN pc' = "session" /\ UNCHANGED user_idx
       ELSE IF user_idx < Len(users_df)
            THEN pc' = "user" /\ user_idx' = user_idx + 1
            ELSE pc' = "noise_missing" /\ UNCHANGED user_idx
    /\ UNCHANGED <<users_df, n_sessions, events_df, purchase_idx,
                   orders, orders_columns, orders_raw>>

\* lines 416-420
NoiseMissing(S) ==
    /\ pc = "noise_missing"
    /\ \E missing_mask \in Masks(Len(all_events), S.noisy) :
          events_df' = ApplyMissing(all_events, missing_mask)
    /\ pc' = "noise_duplicate"
    /\ UNCHANGED <<uuid_calls, users_df, user_idx, n_sessions, session_num,
                   frame, all_events, purchase_idx, orders, orders_columns, orders_raw>>

\* lines 423-428: np.random.choice raises on an empty pool.
NoiseDuplicate(S) ==
    /\ pc = "noise_duplicate"
    /\ \E duplicate_mask \in Masks(Len(events_df), S.noisy) :
          LET pool == SourcePool(Len(events_df), duplicate_mask)
          IN  IF duplicate_mask = {}
              THEN pc' = "trim" /\ UNCHANGED events_df
              ELSE IF pool = {}
              THEN pc' = "error" /\ UNCHANGED events_df
              ELSE /\ \E source_indices \in [duplicate_mask -> pool] :
                        events_df' = ApplyDuplicate(events_df, duplicate_mask,
                                                    source_indices)
                   /\ pc' = "trim"
    /\ UNCHANGED <<uuid_calls, users_df, user_idx, n_sessions, session_num,
                   frame, all_events, purchase_idx, orders, orders_columns, orders_raw>>

\* lines 431-436
Trim ==
    /\ pc = "trim"
    /\ \E keep \in Samples(Len(events_df), TrimSize) :
          events_df' = TrimEvents(events_df, keep)
    /\ pc' = "generate_orders"
    /\ UNCHANGED <<uuid_calls, users_df, user_idx, n_sessions, session_num,
                   frame, all_events, purchase_idx, orders, orders_columns, orders_raw>>

\* lines 452-459: a frame built from an empty list has no event_type column,
\* and events_df["event_type"] raises KeyError.
OrdersBegin ==
    /\ pc = "generate_orders"
    /\ IF events_df = <<>>
       THEN pc' = "error" /\ UNCHANGED orders_columns
       ELSE IF Len(PurchaseEvents(events_df)) = 0
            THEN pc' = "done" /\ orders_columns' = EMPTY_ORDER_COLUMNS
            ELSE pc' = "order_rows" /\ UNCHANGED orders_columns
    /\ UNCHANGED <<uuid_calls, users_df, user_idx, n_sessions, session_num,
                   frame, all_events, events_df, purchase_idx, orders, orders_raw>>

\* lines 463-511: one iteration of the loop over purchase_events
OrderRow(S) ==
    /\ pc = "order_rows"
    /\ purchase_idx < Len(PurchaseEvents(events_df))
    /\ \E raw \in S.prices, quantity \in S.quantities, r_discount \in S.order_unit,
          discount_pct \in S.discount_pcts, r_payment \in S.order_unit :
          orders' = Append(orders,
              MakeOrder(PurchaseEvents(events_df)[purchase_idx + 1], uuid_calls + 1,
                        raw, quantity, r_discount, discount_pct, r_payment))
    /\ uuid_calls' = uuid_calls + 1
    /\ purchase_idx' = purchase_idx + 1
    /\ UNCHANGED <<pc, users_df, user_idx, n_sessions, session_num,
                   frame, all_events, events_df, orders_columns, orders_raw>>

\* lines 513-519
OrdersEnd ==
    /\ pc = "order_rows"
    /\ purchase_idx = Len(PurchaseEvents(events_df))
    /\ orders_columns' = ORDER_COLUMNS
    /\ pc' = "done"
    /\ UNCHANGED <<uuid_calls, users_df, user_idx, n_sessions, session_num,
                   frame, all_events, events_df, purchase_idx, orders, orders_raw>>

\* load_to_db.py main (lines 273-300) on the files main() saved.  The SELECT
\* of load_orders_table names quantity and discount_amount, and fails to bind
\* on the six-column file of a run without purchase.
LoadToDb ==
    /\ pc = "done"
    /\ IF orders_columns # ORDER_COLUMNS
       THEN pc' = "error" /\ UNCHANGED orders_raw
       ELSE /\ pc' = "loaded"
            /\ orders_raw' = LoadOrdersTable(OrdersTemp(orders), EventsRaw(events_df))
    /\ UNCHANGED <<uuid_calls, users_df, user_idx, n_sessions, session_num,
                   frame, all_events, events_df, purchase_idx, orders, orders_columns>>

\* data_generator.py main, then load_to_db.py main
Main(S) ==
    \/ LoadToDb
    \/ GenerateUsers(S)
    \/ EventsBegin
    \/ UserBegin(S)
    \/ SessionRun(S)
    \/ NoiseMissing(S)
    \/ NoiseDuplicate(S)
    \/ Trim
    \/ OrdersBegin
    \/ OrderRow(S)
    \/ OrdersEnd

Next == Main(Narrow)

Spec == Init /\ [][Next]_vars

\* main() over many order draws
NextOrders == Main(OrderRich)

SpecOrders == Init /\ [][NextOrders]_vars

\* main() over users of several sessions
NextEvents == Main(EventRich)

SpecEvents == Init /\ [][NextEvents]_vars

----------------------------------------------------------------------------
(* generate_users alone, for populations large enough to fill every        *)
(* loyalty band (int(0.03 * n) >= 1 needs n >= 34).                        *)

\* The largest population of this specification; the others are fixed.
LargeUsers == 100

UserCounts == {34, 67, LargeUsers}

\* Values of int(beta * DATE_RANGE_DAYS) for n users: spread over the range
\* (no two users on one day) or gathered on a few days (many ties).
SignupPatterns(n) ==
    {[u \in 1..n |-> (a * u + b) % m] :
        a \in {1, 7, 13}, b \in 0..3, m \in {5, 31, DATE_RANGE_DAYS - 1}}

\* Values of np.random.random(n) for is_bot: every k-th draw is under
\* BOT_USER_PCT.
BotPatterns(n) ==
    {[u \in 1..n |-> IF u % k = 0 THEN 50 ELSE 7000] : k \in {7, 50, 150}}

LargeUserTables ==
    UNION {{MakeUsers(days, [u \in 1..n |-> "mobile"], [u \in 1..n |-> "US"],
                      bot_draws, stable) :
                days \in SignupPatterns(n), bot_draws \in BotPatterns(n),
                stable \in BOOLEAN} :
           n \in UserCounts}

NextUsers == GenerateUsersOf(LargeUserTables)

SpecUsers == Init /\ [][NextUsers]_vars

----------------------------------------------------------------------------
(* One call of simulate_user_session, stage by stage, from every entry     *)
(* frame generate_events can build for a row of a users table.             *)

\* Entry of a call made by generate_events over the draws of S.
InitSessionOver(S) ==
    /\ pc = "simulate_user_session"
    /\ users_df = <<>>
    /\ user_idx = 0
    /\ n_sessions = 0
    /\ session_num = 0
    /\ \E table \in UserTables(N_USERS, S) :
          \E u \in DOMAIN table :
             frame \in SessionCalls(table[u], 0, S)
    /\ uuid_calls = CallsAfter(frame)
    /\ all_events = <<>>
    /\ events_df = <<>>
    /\ purchase_idx = 0
    /\ orders = <<>>
    /\ orders_columns = <<>>
    /\ orders_raw = {}

InitSession == InitSessionOver(SessionRich)

Stage(name, outcomes) ==
    /\ pc = "simulate_user_session"
    /\ frame.pc = name
    /\ frame' \in outcomes
    /\ uuid_calls' = CallsAfter(frame')
    /\ UNCHANGED <<pc, users_df, user_idx, n_sessions, session_num,
                   all_events, events_df, purchase_idx, orders, orders_columns, orders_raw>>

BotStep == Stage("bot", BotOutcomes(frame, SessionRich))
VisitStep == Stage("visit", VisitOutcomes(frame, SessionRich))
ProductViewStep == Stage("product_view", ViewOutcomes(frame, SessionRich))
AddToCartStep == Stage("add_to_cart", CartOutcomes(frame, SessionRich))
CheckoutStep == Stage("checkout", CheckoutOutcomes(frame, SessionRich))
PurchaseStep == Stage("purchase", PurchaseOutcomes(frame, SessionRich))

NextSession ==
    \/ BotStep
    \/ VisitStep
    \/ ProductViewStep
    \/ AddToCartStep
    \/ CheckoutStep
    \/ PurchaseStep

SpecSession == InitSession /\ [][NextSession]_vars

\* The stages of one call over the draws of S.
SessionSteps(S) ==
    \/ Stage("bot", BotOutcomes(frame, S))
    \/ Stage("visit", VisitOutcomes(frame, S))
    \/ Stage("product_view", ViewOutcomes(frame, S))
    \/ Stage("add_to_cart", CartOutcomes(frame, S))
    \/ Stage("checkout", CheckoutOutcomes(frame, S))
    \/ Stage("purchase", PurchaseOutcomes(frame, S))

\* One call of simulate_user_session over every product_id that
\* np.random.randint(1, N_PRODUCTS + 1) returns.
NextProducts == SessionSteps(ProductRich)

SpecProducts == InitSessionOver(ProductRich) /\ [][NextProducts]_vars

\* One call of simulate_user_session over small and large values of n_views.
NextViews == SessionSteps(ViewRich)

SpecViews == InitSessionOver(ViewRich) /\ [][NextViews]_vars

----------------------------------------------------------------------------
(* One call of simulate_user_session under other values of the module's    *)
(* FUNNEL_PROBS.  The module reads its configuration when it is imported   *)
(* and main() calls generate_users at once: no statement of the program    *)
(* tests a configuration value.                                            *)

\* Values of FUNNEL_PROBS: the source's, and two with an entry above 1.0.
FunnelConfigs ==
    {FUNNEL_PROBS,
     [FUNNEL_PROBS EXCEPT !.product_view = 12000],
     [FUNNEL_PROBS EXCEPT !.visit = 15000, !.checkout = 20000]}

InitConfig ==
    /\ pc = "simulate_user_session"
    /\ users_df = <<>>
    /\ user_idx = 0
    /\ n_sessions = 0
    /\ session_num = 0
    /\ \E table \in UserTables(N_USERS, SessionRich) :
          \E u \in DOMAIN table :
             \E f \in SessionCalls(table[u], 0, SessionRich), cfg \in FunnelConfigs :
                frame = [f EXCEPT !.funnel_probs =
                            ScaledFunnelProbs(cfg, table[u], f.user_info.source = "paid")]
    /\ uuid_calls = CallsAfter(frame)
    /\ all_events = <<>>
    /\ events_df = <<>>
    /\ purchase_idx = 0
    /\ orders = <<>>
    /\ orders_columns = <<>>
    /\ orders_raw = {}

SpecConfig == InitConfig /\ [][NextSession]_vars

----------------------------------------------------------------------------
(* Properties                                                              *)

SessionReturned == frame.pc = "return"

\* The position in df of its k-th purchase event.
PurchaseRow(df, k) ==
    CHOOSE i \in DOMAIN df :
        /\ df[i].event_type = "purchase"
        /\ Cardinality({j \in 1..i : df[j].event_type = "purchase"}) = k

\* generate_events has returned its DataFrame to main.
EventsReturned == pc \in {"generate_orders", "order_rows", "done"}

\* C1: funnel gating.  In the list simulate_user_session returns, add_to_cart
\* is present only with a product_view, checkout only with an add_to_cart, and
\* purchase only with exactly one checkout.
FunnelGating ==
    SessionReturned =>
        /\ HasType(frame.events, "add_to_cart") => HasType(frame.events, "product_view")
        /\ HasType(frame.events, "checkout") => HasType(frame.events, "add_to_cart")
        /\ HasType(frame.events, "purchase") => CountType(frame.events, "checkout") = 1

FunnelGatingWitness ==
    /\ SessionReturned
    /\ HasType(frame.events, "purchase")
    /\ CountType(frame.events, "add_to_cart") = 2
    /\ CountType(frame.events, "product_view") = 2

\* C2: every session simulated by generate_events holds exactly one visit
\* event, and no event of the session is earlier than it.
OneVisitFirst ==
    SessionReturned =>
        /\ CountType(frame.events, "visit") = 1
        /\ \A i, j \in DOMAIN frame.events :
              frame.events[i].event_type = "visit" =>
                  frame.events[i].ts <= frame.events[j].ts

\* C3: a session of a user with is_bot = true holds no add_to_cart, checkout
\* or purchase event.
BotNoConversion ==
    frame.user_info.is_bot =>
        \A i \in DOMAIN frame.events :
            frame.events[i].event_type \notin {"add_to_cart", "checkout", "purchase"}

BotNoConversionWitness ==
    /\ SessionReturned
    /\ frame.user_info.is_bot
    /\ Len(frame.events) = 3
    /\ HasType(frame.events, "product_view")

\* C4: within one session the timestamps are non-decreasing in emission order.
TimestampsNonDecreasing ==
    \A i, j \in DOMAIN frame.events :
        i < j => frame.events[i].ts <= frame.events[j].ts

\* C5 as claimed: every stored order has price - discount_amount >= MIN_PRICE.
PriceMinusDiscountAtLeastFloor ==
    \A k \in DOMAIN orders :
        orders[k].price - orders[k].discount_amount >= MIN_PRICE

\* C5 as amended: the stored price is the total already reduced by
\* discount_amount, and it is that stored price that is never below MIN_PRICE
\* (with a discount_amount that is never negative), re-clamped or not.
PriceAtLeastFloor ==
    \A k \in DOMAIN orders :
        orders[k].price >= MIN_PRICE /\ orders[k].discount_amount >= 0

\* An order whose drawn discount was re-clamped: it ends at the floor exactly.
PriceAtLeastFloorWitness ==
    \E k \in DOMAIN orders :
        /\ orders[k].discount_amount > 0
        /\ orders[k].price = MIN_PRICE
        /\ orders[k].quantity = 1

\* C6: generate_orders returns one order per purchase event of the collection
\* it receives, in order, with that event's user_id, product_id and ts.
OrdersOneToOne ==
    pc = "done" =>
        /\ Len(orders) = CountType(events_df, "purchase")
        /\ \A k \in DOMAIN orders :
              LET e == events_df[PurchaseRow(events_df, k)]
              IN  /\ orders[k].user_id = e.user_id
                  /\ orders[k].product_id = e.product_id
                  /\ orders[k].ts = e.ts

OrdersOneToOneWitness ==
    /\ pc = "done"
    /\ Len(orders) = 2
    /\ orders[1].user_id # orders[2].user_id
    /\ HasType(events_df, "checkout")

\* C7: after the missing-ID and duplicate-ID passes every event differs from
\* the event simulate_user_session emitted in its session_id at most.
NoiseOnlySessionId ==
    pc \in {"noise_duplicate", "trim"} =>
        /\ Len(events_df) = Len(all_events)
        /\ \A i \in DOMAIN events_df :
              [events_df[i] EXCEPT !.session_id = all_events[i].session_id]
                  = all_events[i]

\* Both passes have changed a session_id: one to None, one to another session's.
NoiseOnlySessionIdWitness ==
    /\ pc = "trim"
    /\ \E i \in DOMAIN events_df :
          events_df[i].session_id = NoneId /\ all_events[i].session_id # NoneId
    /\ \E i \in DOMAIN events_df :
          /\ events_df[i].session_id # NoneId
          /\ events_df[i].session_id # all_events[i].session_id

\* C8 as claimed: every emitted event is in the collection generate_events
\* returns, whatever the number of emitted events.
EventsNeverDeleted ==
    EventsReturned => Len(events_df) = Len(all_events)

\* C8 as amended: the returned rows are distinct emitted events; they are all
\* of them when at most 1.1 * N_EVENTS_TARGET events were emitted, and exactly
\* int(1.05 * N_EVENTS_TARGET) of them otherwise.
EventsKeptUpToTarget ==
    EventsReturned =>
        /\ \A i \in DOMAIN events_df :
              \E j \in DOMAIN all_events : all_events[j].event_id = events_df[i].event_id
        /\ \A i, j \in DOMAIN events_df :
              events_df[i].event_id = events_df[j].event_id => i = j
        /\ IF 10 * Len(all_events) <= 11 * N_EVENTS_TARGET
           THEN Len(events_df) = Len(all_events)
           ELSE Len(events_df) = (105 * N_EVENTS_TARGET) \div 100

\* Both cases: a run that was trimmed ...
EventsKeptUpToTargetWitness ==
    /\ pc = "generate_orders"
    /\ Len(events_df) < Len(all_events)
    /\ HasType(all_events, "purchase")

\* The collections main() saves in a run that makes the draws of this state
\* and starts with the entropy pool in state `entropy`.
RunOutput(entropy) ==
    [users |-> users_df,
     events |-> [i \in DOMAIN events_df |->
                    [events_df[i] EXCEPT
                        !.event_id = UuidString(entropy, @),
                        !.session_id = UuidString(entropy, @)]],
     orders |-> [k \in DOMAIN orders |->
                    [orders[k] EXCEPT !.order_id = UuidString(entropy, @)]]]

\* C9: two complete runs with the same seed and configuration produce
\* identical User, Event and Order collections, identifiers included.
Determinism ==
    pc = "done" => \A e1, e2 \in Entropy : RunOutput(e1) = RunOutput(e2)

\* C10: with no purchase event generate_orders returns an empty collection
\* with the columns of a non-empty one.
EmptyOrdersSchema ==
    (pc = "done" /\ CountType(events_df, "purchase") = 0) =>
        orders = <<>> /\ orders_columns = ORDER_COLUMNS

\* C11: with a funnel probability outside [0, 1] the generator fails before
\* any record is produced: a session running under such a probability holds
\* no event.
InvalidConfigFailsFirst ==
    (\E k \in DOMAIN frame.funnel_probs : frame.funnel_probs[k] \notin 0..10000) =>
        frame.events = <<>>

\* generate_users has returned its table to main.
UsersReturned == pc # "generate_users"

TierCount(df, tier) == Cardinality({u \in DOMAIN df : df[u].loyalty_tier = tier})

\* platinum is the highest tier, bronze the lowest.
TierLevel(tier) ==
    CASE tier = "platinum" -> 3 [] tier = "gold" -> 2 [] tier = "silver" -> 1
      [] OTHER -> 0

\* C12: loyalty tiers are contiguous bands of the population in signup order:
\* floor(0.03 n) users are platinum, floor(0.12 n) gold, floor(0.25 n) silver
\* and the rest bronze; a user who signed up strictly earlier than another has
\* a tier that is not lower; and row u of the returned table is user_id u.
LoyaltyBands ==
    UsersReturned =>
        LET n == Len(users_df)
        IN  /\ TierCount(users_df, "platinum") = (3 * n) \div 100
            /\ TierCount(users_df, "gold") = (12 * n) \div 100
            /\ TierCount(users_df, "silver") = (25 * n) \div 100
            /\ TierCount(users_df, "bronze")
                  = n - (3 * n) \div 100 - (12 * n) \div 100 - (25 * n) \div 100
            /\ \A u, v \in DOMAIN users_df :
                  users_df[u].signup_date < users_df[v].signup_date =>
                      TierLevel(users_df[u].loyalty_tier)
                          >= TierLevel(users_df[v].loyalty_tier)
            /\ \A u \in DOMAIN users_df : users_df[u].user_id = u

\* A population with every band filled, where a band boundary falls between
\* two users of one signup_date and a later user_id got the higher tier.
LoyaltyBandsWitness ==
    /\ UsersReturned
    /\ TierCount(users_df, "platinum") >= 2
    /\ \E u, v \in DOMAIN users_df :
          /\ u < v
          /\ users_df[u].signup_date = users_df[v].signup_date
          /\ users_df[u].loyalty_tier = "gold"
          /\ users_df[v].loyalty_tier = "platinum"

\* The events of a frame of events that are checkout or purchase events.
ConversionRows(df) ==
    {i \in DOMAIN df : df[i].event_type \in {"checkout", "purchase"}}

\* C13: every checkout and purchase event, in any session of its user, carries
\* the variant given by the parity of its user_id: "variant" for an even
\* user_id and "control" for an odd one.
VariantByParity ==
    /\ \A i \in ConversionRows(all_events) :
          all_events[i].variant
              = (IF all_events[i].user_id % 2 = 0 THEN "variant" ELSE "control")
    /\ \A i \in ConversionRows(events_df) :
          events_df[i].variant
              = (IF events_df[i].user_id % 2 = 0 THEN "variant" ELSE "control")

\* Both users converted, one of them in two sessions.
VariantByParityWitness ==
    /\ pc = "noise_missing"
    /\ \E i, j \in ConversionRows(all_events) :
          /\ all_events[i].user_id = all_events[j].user_id
          /\ all_events[i].session_id # all_events[j].session_id
          /\ all_events[i].event_type = "checkout"
          /\ all_events[j].event_type = "purchase"
    /\ \E i, j \in ConversionRows(all_events) :
          all_events[i].variant = "control" /\ all_events[j].variant = "variant"

\* The A/B columns of the rows of df: set on the checkout and purchase events
\* of users that are not bots, None on every other row.
AbColumnsOf(df) ==
    \A i \in DOMAIN df :
        IF df[i].event_type \in {"checkout", "purchase"}
           /\ ~users_df[df[i].user_id].is_bot
        THEN df[i].ab_test_id # NoneStr /\ df[i].variant # NoneStr
        ELSE df[i].ab_test_id = NoneStr /\ df[i].variant = NoneStr

\* C14: in the event collection ab_test_id and variant are both non-null on
\* every checkout and purchase event of a non-bot session and both null on
\* every other event, the events of bot sessions included.
AbColumns == AbColumnsOf(all_events) /\ AbColumnsOf(events_df)

\* A returned collection with a bot's event, a visit, a checkout and a purchase.
AbColumnsWitness ==
    /\ EventsReturned
    /\ \E i \in DOMAIN events_df : users_df[events_df[i].user_id].is_bot
    /\ HasType(events_df, "add_to_cart")
    /\ HasType(events_df, "checkout")
    /\ HasType(events_df, "purchase")

\* C15: every event of a session, bot or not, has the product_category that
\* get_product_category gives for its product_id (None exactly for a None
\* product_id).
CategoryOfProduct ==
    \A i \in DOMAIN frame.events :
        frame.events[i].product_category
            = get_product_category(frame.events[i].product_id)

\* The events whose product_category was computed by get_product_category.
CategorizedRows(evs) ==
    {i \in DOMAIN evs :
        evs[i].event_type \in {"product_view", "add_to_cart", "purchase"}
        /\ ~frame.user_info.is_bot}

\* C16: get_product_category is total and cyclic: the category it gave to a
\* product_id >= 1 is a member of PRODUCT_CATEGORIES, all five of them are
\* given, and it is the category of product_id + len(PRODUCT_CATEGORIES) too;
\* get_product_category(None) is None.
CategoryCyclic ==
    /\ \A i \in CategorizedRows(frame.events) :
          LET p == frame.events[i].product_id
              next == p + Len(PRODUCT_CATEGORIES)
          IN  /\ p >= 1
              /\ frame.events[i].product_category = get_product_category(p)
              /\ \E k \in DOMAIN PRODUCT_CATEGORIES :
                    frame.events[i].product_category = PRODUCT_CATEGORIES[k]
              /\ get_product_category(next) = frame.events[i].product_category
              /\ get_product_category(next) = PRODUCT_CATEGORIES[((next - 1) % 5) + 1]
    /\ get_product_category(NoneId) = NoneStr

\* product_id 6 was viewed, carted and purchased with the category of product_id 1.
CategoryCyclicWitness ==
    /\ SessionReturned
    /\ \E i \in CategorizedRows(frame.events) :
          /\ frame.events[i].event_type = "purchase"
          /\ frame.events[i].product_id = 6
          /\ frame.events[i].product_category = PRODUCT_CATEGORIES[1]

\* C17: the number of users with is_bot = true is floor(0.02 * n) for every
\* table of n users generate_users returns (2 for n = 100), whatever the draws.
BotCountFixed ==
    UsersReturned =>
        Cardinality({u \in DOMAIN users_df : users_df[u].is_bot})
            = (BOT_USER_PCT * Len(users_df)) \div 10000

\* C18 as claimed: the price of every stored order lies in [MIN_PRICE, MAX_PRICE].
PriceWithinBounds ==
    \A k \in DOMAIN orders :
        orders[k].price >= MIN_PRICE /\ orders[k].price <= MAX_PRICE

\* C18 as amended: it is the unit price that is clipped to [MIN_PRICE,
\* MAX_PRICE]; the stored price is unit price * quantity - discount_amount, so
\* price + discount_amount lies in [quantity * MIN_PRICE, quantity * MAX_PRICE]
\* and price in [MIN_PRICE, quantity * MAX_PRICE], with quantity in 1..4.
PriceWithinQuantityBounds ==
    \A k \in DOMAIN orders :
        LET base_total == orders[k].price + orders[k].discount_amount
        IN  /\ orders[k].quantity \in 1..4
            /\ base_total >= orders[k].quantity * MIN_PRICE
            /\ base_total <= orders[k].quantity * MAX_PRICE
            /\ orders[k].price >= MIN_PRICE
            /\ orders[k].price <= orders[k].quantity * MAX_PRICE

\* A discounted order of four units at the clipped ceiling: its price is above
\* MAX_PRICE.
PriceWithinQuantityBoundsWitness ==
    \E k \in DOMAIN orders :
        /\ orders[k].quantity = 4
        /\ orders[k].discount_amount > 0
        /\ orders[k].price + orders[k].discount_amount = 4 * MAX_PRICE
        /\ orders[k].price > MAX_PRICE

\* C19: the duplicate-ID pass copies uncorrupted identifiers only.  Every row
\* the pass changes ends with a session_id that is not None and is the
\* original session_id of another row, one that neither pass selected.
DuplicateCopiesUncorrupted ==
    [][(pc = "noise_duplicate" /\ pc' = "trim") =>
          \A i \in DOMAIN events_df :
              events_df'[i] # events_df[i] =>
                  /\ events_df'[i].session_id # NoneId
                  /\ \E j \in DOMAIN events_df \ {i} :
                        /\ all_events[j].session_id = events_df'[i].session_id
                        /\ events_df[j].session_id = all_events[j].session_id
                        /\ events_df'[j] = events_df[j]]_vars

\* C20: a non-bot session holds no product_view event or between 1 and 4 of
\* them, each with a product_id in [1, N_PRODUCTS].
ViewsCapped ==
    ~frame.user_info.is_bot =>
        /\ CountType(frame.events, "product_view") \in 0..4
        /\ \A i \in DOMAIN frame.events :
              frame.events[i].event_type = "product_view" =>
                  frame.events[i].product_id \in 1..N_PRODUCTS

\* C21: a session holds no add_to_cart event (the stage did not trigger) or
\* between 1 and 3 of them.
CartsCapped ==
    CountType(frame.events, "add_to_cart") \in 0..3

\* C22: the product_id of every add_to_cart event and of every purchase event
\* is the product_id of a product_view event emitted earlier in the session
\* (the random fallback product is never used).
CartFromViewed ==
    \A i \in DOMAIN frame.events :
        frame.events[i].event_type \in {"add_to_cart", "purchase"} =>
            \E j \in 1..(i - 1) :
                /\ frame.events[j].event_type = "product_view"
                /\ frame.events[j].product_id = frame.events[i].product_id

\* A purchase of the product viewed second, after two different products
\* were viewed and both were added to the cart.
CartFromViewedWitness ==
    /\ SessionReturned
    /\ Len(frame.events) = 7
    /\ frame.events[2].product_id # frame.events[3].product_id
    /\ frame.events[4].product_id = frame.events[3].product_id
    /\ frame.events[5].product_id = frame.events[2].product_id
    /\ frame.events[7].event_type = "purchase"

\* C23: a session holds at most one checkout and at most one purchase event;
\* a purchase event has the product_id of the first add_to_cart event of the
\* session and the ab_test_id and variant of the session's checkout event.
OnePurchaseOfFirstCart ==
    /\ CountType(frame.events, "checkout") <= 1
    /\ CountType(frame.events, "purchase") <= 1
    /\ \A i \in DOMAIN frame.events :
          frame.events[i].event_type = "purchase" =>
              /\ \E j \in 1..(i - 1) :
                    /\ frame.events[j].event_type = "add_to_cart"
                    /\ \A k \in 1..(j - 1) : frame.events[k].event_type # "add_to_cart"
                    /\ frame.events[j].product_id = frame.events[i].product_id
              /\ \E c \in 1..(i - 1) :
                    /\ frame.events[c].event_type = "checkout"
                    /\ frame.events[c].ab_test_id = frame.events[i].ab_test_id
                    /\ frame.events[c].variant = frame.events[i].variant

\* A purchase after two different products were added to the cart.
OnePurchaseOfFirstCartWitness ==
    /\ SessionReturned
    /\ HasType(frame.events, "purchase")
    /\ \E i, j \in DOMAIN frame.events :
          /\ frame.events[i].event_type = "add_to_cart"
          /\ frame.events[j].event_type = "add_to_cart"
          /\ frame.events[i].product_id # frame.events[j].product_id
    /\ frame.events[Len(frame.events)].variant = "variant"

\* C24: the purchase probability of a non-bot session is a constant of the
\* user's A/B variant.  Two sessions simulated one after the other for users
\* of the same variant use the same purchase probability, whatever their
\* traffic source, device or loyalty tier.
PurchaseProbPerVariant ==
    [][(/\ frame.pc = "return" /\ frame'.pc = "return"
        /\ ~frame.user_info.is_bot /\ ~frame'.user_info.is_bot
        /\ frame.user_info.ab_variant = frame'.user_info.ab_variant) =>
          frame.funnel_probs.purchase = frame'.funnel_probs.purchase]_vars

\* A call of simulate_user_session has been made.
SessionEntered == frame.pc # "none"

\* C25: every session starts at or after its user's signup_date and at or
\* before END_DATE, and the signup_date lies in [START_DATE, END_DATE].
SessionStartInWindow ==
    SessionEntered =>
        /\ frame.start_time >= frame.user_info.signup_date
        /\ frame.start_time <= END_DATE
        /\ frame.user_info.signup_date >= 0
        /\ frame.user_info.signup_date <= END_DATE

\* A session whose drawn offset passed END_DATE and was clamped to it.
SessionStartInWindowWitness ==
    /\ SessionReturned
    /\ frame.start_time = END_DATE
    /\ frame.user_info.signup_date = 700 * SecondsPerDay
    /\ frame.events # <<>>

USER_COLUMNS ==
    {"user_id", "signup_date", "device", "country", "is_bot", "loyalty_tier"}

\* C26: data flows forward only.  Once generate_users has returned, no step of
\* generate_events or generate_orders changes the users table, and once
\* generate_events has returned no step of generate_orders changes the events
\* table.
ForwardOnly ==
    [][/\ UsersReturned => users_df' = users_df
       /\ EventsReturned => events_df' = events_df]_vars

\* A finished run with orders, whose users table still has its six columns
\* while the events made from it carry the users' ab_variant.
ForwardOnlyWitness ==
    /\ pc = "done"
    /\ orders # <<>>
    /\ \A u \in DOMAIN users_df : DOMAIN users_df[u] = USER_COLUMNS
    /\ \E i \in DOMAIN events_df : events_df[i].variant = "variant"

\* The rows of orders_raw loaded from order o.
RowsOf(o) == {r \in orders_raw : r.order_id = o.order_id}

\* C27: load_orders_table neither duplicates nor drops orders.  orders_raw
\* holds exactly one row per order of the file, with the order's columns and
\* with product_category = get_product_category(product_id), or 'unknown'
\* when no event of that product_id carries a category.
OrdersLoadedOnce ==
    pc = "loaded" =>
        /\ Cardinality(orders_raw) = Len(orders)
        /\ \A k \in DOMAIN orders :
              /\ Cardinality(RowsOf(orders[k])) = 1
              /\ \A r \in RowsOf(orders[k]) :
                    /\ r.product_id = orders[k].product_id
                    /\ r.price = orders[k].price
                    /\ r.product_category =
                          (IF \E i \in DOMAIN events_df :
                                 /\ events_df[i].product_id = orders[k].product_id
                                 /\ events_df[i].product_category # NoneStr
                           THEN get_product_category(orders[k].product_id)
                           ELSE "unknown")

\* An order loaded next to a bot's event of the same product_id, which has
\* no product_category.
OrdersLoadedOnceWitness ==
    /\ pc = "loaded"
    /\ Len(orders) = 1
    /\ \E i \in DOMAIN events_df :
          /\ events_df[i].product_id = orders[1].product_id
          /\ events_df[i].product_category = NoneStr
    /\ \A r \in orders_raw : r.product_category = "fashion"

====
